---- MODULE Spec2Model ----
(***************************************************************************)
(* CrawlMCP: an MCP server with two tools, list_chrome_pages and           *)
(* get_page_html, in front of Chrome's remote-debugging endpoint           *)
(* (src/src/index.ts).                                                     *)
(*                                                                         *)
(* Part 1 models removeUnwantedElements, the regex content filter, on      *)
(* strings represented as sequences of one-character strings.  Every       *)
(* replaceAll of the source is an operator that scans the string exactly   *)
(* as the regular expression does (leftmost match, greedy or lazy          *)
(* quantifiers, non-overlapping replacement).                              *)
(*                                                                         *)
(* Part 2 models the request handlers (getTargets, listPages,              *)
(* getHtmlContent and the two registered tools) as a state machine in      *)
(* which every `await` on the browser is a point where other calls may     *)
(* run.                                                                    *)
(***************************************************************************)
EXTENDS Integers, Sequences, FiniteSets, TLC

(***************************************************************************)
(* Characters                                                              *)
(***************************************************************************)

LowerLetters ==
  {"a","b","c","d","e","f","g","h","i","j","k","l","m",
   "n","o","p","q","r","s","t","u","v","w","x","y","z"}

UpperLetters ==
  {"A","B","C","D","E","F","G","H","I","J","K","L","M",
   "N","O","P","Q","R","S","T","U","V","W","X","Y","Z"}

Digits == {"0","1","2","3","4","5","6","7","8","9"}

ToLower ==
  ("A" :> "a") @@ ("B" :> "b") @@ ("C" :> "c") @@ ("D" :> "d") @@
  ("E" :> "e") @@ ("F" :> "f") @@ ("G" :> "g") @@ ("H" :> "h") @@
  ("I" :> "i") @@ ("J" :> "j") @@ ("K" :> "k") @@ ("L" :> "l") @@
  ("M" :> "m") @@ ("N" :> "n") @@ ("O" :> "o") @@ ("P" :> "p") @@
  ("Q" :> "q") @@ ("R" :> "r") @@ ("S" :> "s") @@ ("T" :> "t") @@
  ("U" :> "u") @@ ("V" :> "v") @@ ("W" :> "w") @@ ("X" :> "x") @@
  ("Y" :> "y") @@ ("Z" :> "z")

\* The `i` flag: characters are compared after case folding.
Lower(c) == IF c \in UpperLetters THEN ToLower[c] ELSE c

LowerStr(s) == [k \in 1..Len(s) |-> Lower(s[k])]

\* [a-z] under the `i` flag.
IsLetter(c) == Lower(c) \in LowerLetters

\* [a-z0-9] under the `i` flag.
IsAlnum(c) == IsLetter(c) \/ c \in Digits

\* [a-z0-9-] under the `i` flag.
IsAttrNameChar(c) == IsAlnum(c) \/ c = "-"

\* \s
IsSpace(c) == c \in {" ", "\n", "\t"}

\* ["']
IsQuote(c) == c \in {"\"", "'"}

\* [A-Za-z0-9+/=]
IsBase64(c) == c \in LowerLetters \cup UpperLetters \cup Digits \cup {"+", "/", "="}

(***************************************************************************)
(* Scanning helpers.  Positions are 1-based; 0 means "no match".           *)
(***************************************************************************)

\* s has the literal pat (given in lower case) at position i, ignoring case.
StartsWithCI(s, i, pat) ==
  /\ i >= 1
  /\ i + Len(pat) - 1 <= Len(s)
  /\ \A k \in 1..Len(pat) : Lower(s[i + k - 1]) = pat[k]

\* s has the literal pat at position i, case-sensitively.
StartsWith(s, i, pat) ==
  /\ i >= 1
  /\ i + Len(pat) - 1 <= Len(s)
  /\ \A k \in 1..Len(pat) : s[i + k - 1] = pat[k]

\* The first position >= i holding the character c.
RECURSIVE FindChar(_, _, _)
FindChar(s, i, c) ==
  IF i > Len(s) THEN 0
  ELSE IF s[i] = c THEN i
  ELSE FindChar(s, i + 1, c)

\* The first position >= i holding a quote.
RECURSIVE FindQuote(_, _)
FindQuote(s, i) ==
  IF i > Len(s) THEN 0
  ELSE IF IsQuote(s[i]) THEN i
  ELSE FindQuote(s, i + 1)

\* The first position >= i where pat occurs, ignoring case.
RECURSIVE FindCI(_, _, _)
FindCI(s, i, pat) ==
  IF i + Len(pat) - 1 > Len(s) THEN 0
  ELSE IF StartsWithCI(s, i, pat) THEN i
  ELSE FindCI(s, i + 1, pat)

\* The last position of the maximal run of whitespace starting at i
\* (i - 1 when s[i] is not whitespace): a greedy \s*.
RECURSIVE SkipSpace(_, _)
SkipSpace(s, i) ==
  IF i <= Len(s) /\ IsSpace(s[i]) THEN SkipSpace(s, i + 1) ELSE i - 1

\* Greedy [a-z0-9]* from i: last position of the run (i - 1 when empty).
RECURSIVE SkipAlnum(_, _)
SkipAlnum(s, i) ==
  IF i <= Len(s) /\ IsAlnum(s[i]) THEN SkipAlnum(s, i + 1) ELSE i - 1

\* Greedy [a-z0-9-]* from i.
RECURSIVE SkipAttrName(_, _)
SkipAttrName(s, i) ==
  IF i <= Len(s) /\ IsAttrNameChar(s[i]) THEN SkipAttrName(s, i + 1) ELSE i - 1

\* Greedy [A-Za-z0-9+/=]* from i.
RECURSIVE SkipBase64(_, _)
SkipBase64(s, i) ==
  IF i <= Len(s) /\ IsBase64(s[i]) THEN SkipBase64(s, i + 1) ELSE i - 1

\* The first position >= i holding one of `"`, `;`, `)`: where [^";)]* stops.
RECURSIVE FindDataStop(_, _)
FindDataStop(s, i) ==
  IF i > Len(s) THEN 0
  ELSE IF s[i] \in {"\"", ";", ")"} THEN i
  ELSE FindDataStop(s, i + 1)

Sub(s, a, b) == IF a > b THEN <<>> ELSE SubSeq(s, a, b)

(***************************************************************************)
(* String.prototype.replaceAll with a global regular expression: scan from *)
(* the left; where the pattern matches at i (MatchEnd gives the last       *)
(* position of the match, 0 for no match) emit the replacement and go on   *)
(* after the match; otherwise copy s[i] and go on at i + 1.  No pattern of *)
(* the filter matches the empty string.                                    *)
(***************************************************************************)
ReplaceAll(s, MatchEnd(_, _), Replacement(_, _, _)) ==
  LET from[i \in 1..(Len(s) + 1)] ==
        IF i > Len(s) THEN <<>>
        ELSE LET e == MatchEnd(s, i)
             IN IF e = 0
                THEN <<s[i]>> \o from[i + 1]
                ELSE Replacement(s, i, e) \o from[e + 1]
  IN from[1]

\* The replacement string "".
Nothing(s, i, e) == <<>>

(***************************************************************************)
(* The patterns of removeUnwantedElements, in source order.                *)
(***************************************************************************)

NameHead   == <<"h","e","a","d">>
NameScript == <<"s","c","r","i","p","t">>
NameStyle  == <<"s","t","y","l","e">>
NameSvg    == <<"s","v","g">>
NameI      == <<"i">>

\* /<NAME[^>]*>[\s\S]*?<\/NAME>/gi at position i: `<NAME`, then everything
\* up to the first `>`, then (lazily) everything up to the first `</NAME>`.
BlockEnd(s, i, name) ==
  IF ~StartsWithCI(s, i, <<"<">> \o name) THEN 0
  ELSE LET g == FindChar(s, i + Len(name) + 1, ">")
       IN IF g = 0 THEN 0
          ELSE LET c == FindCI(s, g + 1, <<"<", "/">> \o name \o <<">">>)
               IN IF c = 0 THEN 0 ELSE c + Len(name) + 2

HeadEnd(s, i)   == BlockEnd(s, i, NameHead)
ScriptEnd(s, i) == BlockEnd(s, i, NameScript)
StyleEnd(s, i)  == BlockEnd(s, i, NameStyle)
SvgEnd(s, i)    == BlockEnd(s, i, NameSvg)
ItalicEnd(s, i) == BlockEnd(s, i, NameI)

LitImg       == <<"<","i","m","g">>
LitSrcEq     == <<"s","r","c","=">>
LitDataImage == <<"d","a","t","a",":","i","m","a","g","e">>
LitBase64    == <<";","b","a","s","e","6","4",",">>
LitMeta      == <<"<","m","e","t","a">>
LitInput     == <<"<","i","n","p","u","t">>

\* With `src=` at j: the quote, `data:image`, [^"']* holding `;base64,`,
\* the closing quote, [^>]* and `>`.  The last position of the match, or 0.
ImgDataTail(s, j) ==
  IF ~(/\ StartsWithCI(s, j, LitSrcEq)
       /\ j + 4 <= Len(s)
       /\ IsQuote(s[j + 4])
       /\ StartsWithCI(s, j + 5, LitDataImage))
  THEN 0
  ELSE LET q == FindQuote(s, j + 15)
       IN IF q = 0 THEN 0
          ELSE IF \A k \in (j + 15)..(q - 8) : ~StartsWithCI(s, k, LitBase64) THEN 0
          ELSE FindChar(s, q + 1, ">")

\* /<img[^>]*src=["']data:image[^"']*;base64,[^"']*["'][^>]*>/gi at i.
\* [^>]* is greedy: of the places j where `src=` can start (none beyond the
\* first `>`), the regex engine takes the last one that completes a match.
ImgDataEnd(s, i) ==
  IF ~StartsWithCI(s, i, LitImg) THEN 0
  ELSE LET g  == FindChar(s, i + 4, ">")
           js == IF g = 0 THEN {}
                 ELSE {j \in (i + 4)..(g - 1) : ImgDataTail(s, j) # 0}
       IN IF js = {} THEN 0
          ELSE ImgDataTail(s, CHOOSE j \in js : \A k \in js : k <= j)

\* /<meta[^>]*>/gi at i.
MetaEnd(s, i) ==
  IF StartsWithCI(s, i, LitMeta) THEN FindChar(s, i + 5, ">") ELSE 0

\* /<input[^>]*>/gi at i.
InputEnd(s, i) ==
  IF StartsWithCI(s, i, LitInput) THEN FindChar(s, i + 6, ">") ELSE 0

\* /data:image[^";)]*;base64,[A-Za-z0-9+/=]+/g at i (case-sensitive).
DataUriEnd(s, i) ==
  IF ~StartsWith(s, i, LitDataImage) THEN 0
  ELSE LET k == FindDataStop(s, i + 10)
       IN IF k = 0 \/ ~StartsWith(s, k, LitBase64) THEN 0
          ELSE LET e == SkipBase64(s, k + 8)
               IN IF e < k + 8 THEN 0 ELSE e

(***************************************************************************)
(* The attribute rewrite: a tag name (a letter, then letters and digits),  *)
(* at least one whitespace character and everything up to the first `>`,   *)
(* rewritten by a callback that keeps the attributes named id, href, src.  *)
(***************************************************************************)

allowedAttrs == { <<"i","d">>, <<"h","r","e","f">>, <<"s","r","c">> }

\* The last position of the tag name of a tag opening at i, or 0.
TagNameEnd(s, i) ==
  IF i + 1 <= Len(s) /\ s[i] = "<" /\ IsLetter(s[i + 1])
  THEN SkipAlnum(s, i + 1)
  ELSE 0

\* The last position (the `>`) of a match of the tag pattern at i, or 0.
TagEnd(s, i) ==
  LET n == TagNameEnd(s, i)
  IN IF n = 0 THEN 0
     ELSE LET w == SkipSpace(s, n + 1)
          IN IF w = n THEN 0 ELSE FindChar(s, w + 1, ">")

\* attrRegex at p: a name [a-z][a-z0-9-]* , \s* = \s* , a quote, [^"']* , a
\* quote (flags gi).  The last position of the match, or 0.
AttrEnd(a, p) ==
  IF ~(p <= Len(a) /\ IsLetter(a[p])) THEN 0
  ELSE LET n  == SkipAttrName(a, p)
           e  == SkipSpace(a, n + 1) + 1
       IN IF ~(e <= Len(a) /\ a[e] = "=") THEN 0
          ELSE LET o == SkipSpace(a, e + 1) + 1
               IN IF ~(o <= Len(a) /\ IsQuote(a[o])) THEN 0
                  ELSE FindQuote(a, o + 1)

\* The while loop over attrRegex.exec: the kept matches, in order.
RECURSIVE cleanedAttrs(_, _)
cleanedAttrs(a, p) ==
  IF p > Len(a) THEN <<>>
  ELSE LET e == AttrEnd(a, p)
       IN IF e = 0 THEN cleanedAttrs(a, p + 1)
          ELSE LET attrName == LowerStr(Sub(a, p, SkipAttrName(a, p)))
               IN (IF attrName \in allowedAttrs THEN <<Sub(a, p, e)>> ELSE <<>>)
                  \o cleanedAttrs(a, e + 1)

\* cleanedAttrs.join(" ")
RECURSIVE Join(_)
Join(parts) ==
  IF parts = <<>> THEN <<>>
  ELSE IF Len(parts) = 1 THEN parts[1]
  ELSE parts[1] \o <<" ">> \o Join(Tail(parts))

\* The callback's return value for the match s[i..e].
RewriteTag(s, i, e) ==
  LET n     == TagNameEnd(s, i)
      w     == SkipSpace(s, n + 1)
      tag   == Sub(s, i + 1, n)
      kept  == cleanedAttrs(Sub(s, w + 1, e - 1), 1)
  IN <<"<">> \o tag
     \o (IF Len(kept) > 0 THEN <<" ">> \o Join(kept) ELSE <<>>)
     \o <<">">>

\* />\s+</g at i.
GapEnd(s, i) ==
  IF ~(i + 1 <= Len(s) /\ s[i] = ">" /\ IsSpace(s[i + 1])) THEN 0
  ELSE LET w == SkipSpace(s, i + 1)
       IN IF w + 1 <= Len(s) /\ s[w + 1] = "<" THEN w + 1 ELSE 0

\* The replacement string "><".
Joined(s, i, e) == <<">", "<">>

\* The empty-element pattern at i: `<`, a name [a-z][a-z0-9]* , `>`, \s* ,
\* `</`, the same name (back-reference, flags gi), `>`.
EmptyEnd(s, i) ==
  LET n == TagNameEnd(s, i)
  IN IF n = 0 \/ ~(n + 1 <= Len(s) /\ s[n + 1] = ">") THEN 0
     ELSE LET w    == SkipSpace(s, n + 2)
              name == LowerStr(Sub(s, i + 1, n))
          IN IF StartsWithCI(s, w + 1, <<"<", "/">> \o name \o <<">">>)
             THEN w + Len(name) + 3
             ELSE 0

\* One iteration of the do-while body: the new value of `result`.
LoopBody(result) ==
  LET r1  == ReplaceAll(result, HeadEnd, Nothing)
      r2  == ReplaceAll(r1, ScriptEnd, Nothing)
      r3  == ReplaceAll(r2, StyleEnd, Nothing)
      r4  == ReplaceAll(r3, SvgEnd, Nothing)
      r5  == ReplaceAll(r4, ImgDataEnd, Nothing)
      r6  == ReplaceAll(r5, MetaEnd, Nothing)
      r7  == ReplaceAll(r6, DataUriEnd, Nothing)
      r8  == ReplaceAll(r7, ItalicEnd, Nothing)
      r9  == ReplaceAll(r8, InputEnd, Nothing)
      r10 == ReplaceAll(r9, TagEnd, RewriteTag)
      r11 == ReplaceAll(r10, GapEnd, Joined)
  IN ReplaceAll(r11, EmptyEnd, Nothing)

\* Variant: a single pass, do { ... } while (false).
LoopConditionNever(res, prev, input) == FALSE

\* Variant: the loop test compares with the argument, not with `previous`.
LoopConditionInput(res, prev, input) == res # input

\* while (result !== previous)
LoopCondition(res, prev, input) == res # prev

\* do { previous = result; result = ... } while (result !== previous)
RECURSIVE Loop(_, _)
Loop(prev, input) ==
  LET res == LoopBody(prev)
  IN IF LoopCondition(res, prev, input) THEN Loop(res, input) ELSE res

removeUnwantedElements(input) == Loop(input, input)

\* Attribute fragments.
ID_X       == <<"i","d","=","\"","x","\"">>
HREF_U     == <<"h","r","e","f","=","\"","u","\"">>
SRC_U      == <<"s","r","c","=","\"","u","\"">>
ALT_A      == <<"a","l","t","=","\"","a","\"">>
ONCLICK_E  == <<"o","n","c","l","i","c","k","=","\"","e","\"">>
DATA_ID_Y  == <<"d","a","t","a","-","i","d","=","\"","y","\"">>
ID_BARE    == <<"i","d","=","x">>

(***************************************************************************)
(* Inputs of the content filter.  Strings are built from fragments; the    *)
(* filter itself always works on the characters.                           *)
(***************************************************************************)

\* Bounds of the input families.
MaxFrags == 4
MaxAttrs == 2
MaxDepth == 2

RECURSIVE Concat(_)
Concat(parts) == IF parts = <<>> THEN <<>> ELSE Head(parts) \o Concat(Tail(parts))

OpenTag(name)  == <<"<">> \o name \o <<">">>
CloseTag(name) == <<"<", "/">> \o name \o <<">">>

NameP    == <<"p">>
NameA    == <<"a">>
NameDiv  == <<"d","i","v">>
NameSpan == <<"s","p","a","n">>
NameImg  == <<"i","m","g">>
NameXY   == <<"x","-","y">>

\* Family 1: any sequence of at most MaxFrags markup fragments, closed or
\* not, nested or not.
MarkupFrags ==
  { OpenTag(NameP), CloseTag(NameP), OpenTag(<<"P">>),
    OpenTag(NameI), CloseTag(NameI),
    OpenTag(NameSvg), CloseTag(NameSvg),
    OpenTag(NameXY), CloseTag(NameXY),
    <<" ">>, <<"t">> }

MarkupInputs ==
  { Concat(fs) : fs \in UNION { [1..n -> MarkupFrags] : n \in 0..MaxFrags } }

\* Family 2: one opening tag with at most MaxAttrs attributes, each after a
\* space or directly after what precedes it, then nothing, text or the
\* closing tag.
AttrFrags ==
  { ID_X, HREF_U, SRC_U, ALT_A, ONCLICK_E, DATA_ID_Y, ID_BARE }

AttrSeps == { <<" ">>, <<>> }

AttrTagNames == { NameA, NameP, NameImg, NameXY }

AttrLists ==
  UNION { [1..n -> AttrSeps \X AttrFrags] : n \in 0..MaxAttrs }

AttrText(as) == Concat([k \in 1..Len(as) |-> as[k][1] \o as[k][2]])

AfterTag(tag, kind) ==
  CASE kind = "nothing" -> <<>>
    [] kind = "text"    -> <<"t">>
    [] kind = "close"   -> CloseTag(tag)

TagInputs ==
  { <<"<">> \o tag \o AttrText(as) \o <<">">> \o AfterTag(tag, kind) :
      tag \in AttrTagNames, as \in AttrLists,
      kind \in { "nothing", "text", "close" } }

\* Family 3: a core wrapped in at most MaxDepth attribute-less elements.
Cores ==
  { OpenTag(NameSpan) \o CloseTag(NameSpan),
    OpenTag(NameP) \o <<" ", " ", " ">> \o CloseTag(NameP),
    OpenTag(NameXY) \o CloseTag(NameXY),
    OpenTag(NameI) \o CloseTag(NameI),
    <<"<","p"," ">> \o ID_X \o <<">">> \o CloseTag(NameP),
    <<"<","p"," ">> \o ONCLICK_E \o <<">">> \o CloseTag(NameP),
    <<"t">>, <<" ">>, <<>> }

Wrappers == { NameDiv, NameP, NameXY }

RECURSIVE Wrap(_, _)
Wrap(ws, core) ==
  IF ws = <<>> THEN core
  ELSE OpenTag(Head(ws)) \o Wrap(Tail(ws), core) \o CloseTag(Head(ws))

NestedInputs ==
  { Wrap(ws, core) :
      ws \in UNION { [1..d -> Wrappers] : d \in 0..MaxDepth }, core \in Cores }

\* Family 4: the worked examples of the documentation and close variants.
ScSpan ==
  <<"<","s","p","a","n",">","<","/","s","p","a","n",">">>
ScPara ==
  <<"<","p",">"," "," "," ","<","/","p",">">>
ScNestedSpan ==
  <<"<","d","i","v",">","<","d","i","v",">","<","s","p","a","n",">","<","/","s","p","a","n",">","<","/","d","i","v",">","<","/","d","i","v",">">>
ScNestedPara ==
  <<"<","d","i","v",">","<","d","i","v",">","<","p",">"," "," "," ","<","/","p",">","<","/","d","i","v",">","<","/","d","i","v",">">>
ScDivAttrs ==
  <<"<","d","i","v"," ","o","n","c","l","i","c","k","=","\"","e","v","i","l","(",")","\""," ","i","d","=","\"","x","\""," ","d","a","t","a","-","f","o","o","=","\"","y","\"",">","t","<","/","d","i","v",">">>
ScImgData ==
  <<"<","i","m","g"," ","s","r","c","=","\"","d","a","t","a",":","i","m","a","g","e","/","p","n","g",";","b","a","s","e","6","4",",","A","A","A","A","\"",">">>
ScImgHttp ==
  <<"<","i","m","g"," ","s","r","c","=","\"","h","t","t","p","s",":","/","/","x","/","y",".","p","n","g","\""," ","a","l","t","=","\"","a","\"",">">>
ScScript ==
  <<"<","s","c","r","i","p","t",">","a","l","e","r","t","(","1",")","<","/","s","c","r","i","p","t",">">>
ScScriptSplit ==
  <<"<","s","c","r","<","s","c","r","i","p","t",">","<","/","s","c","r","i","p","t",">","i","p","t",">","x","<","/","s","c","r","i","p","t",">">>
ScScriptOpen ==
  <<"<","s","c","r","i","p","t",">","a","l","e","r","t","(","1",")">>
ScNestedBad ==
  <<"<","h","e","a","d",">","<","s","t","y","l","e",">","s","<","s","v","g",">","<","/","s","v","g",">","<","/","s","t","y","l","e",">","<","i","n","p","u","t"," ","i","d","=","\"","x","\"",">","<","/","h","e","a","d",">">>
ScIframe ==
  <<"<","i","f","r","a","m","e"," ","s","r","c","=","\"","u","\"",">","<","/","i","f","r","a","m","e",">">>
ScMeta ==
  <<"<","m","e","t","a"," ","c","h","a","r","s","e","t","=","\"","u","\"",">","t">>
ScInput ==
  <<"<","p",">","<","i","n","p","u","t"," ","i","d","=","\"","x","\"",">","t","<","/","p",">">>
ScCssData ==
  <<"u","r","l","(","d","a","t","a",":","i","m","a","g","e","/","p","n","g",";","b","a","s","e","6","4",",","A","A","A","A",")">>
ScDataText ==
  <<"<","a"," ","h","r","e","f","=","\"","d","a","t","a",":","t","e","x","t","/","h","t","m","l",",","x","\"",">","t","<","/","a",">">>
ScJsHref ==
  <<"<","a"," ","h","r","e","f","=","\"","j","a","v","a","s","c","r","i","p","t",":","e","v","i","l","(",")","\"",">","x","<","/","a",">">>
ScAdjacent ==
  <<"<","a"," ","i","d","=","\"","x","\"","h","r","e","f","=","\"","u","\""," ","i","d","=","\"","y","\"",">","t","<","/","a",">">>

ScenarioInputs ==
  { ScSpan,
    ScPara,
    ScNestedSpan,
    ScNestedPara,
    ScDivAttrs,
    ScImgData,
    ScImgHttp,
    ScScript,
    ScScriptSplit,
    ScScriptOpen,
    ScNestedBad,
    ScIframe,
    ScMeta,
    ScInput,
    ScCssData,
    ScDataText,
    ScJsHref,
    ScAdjacent }

Inputs == MarkupInputs \cup TagInputs \cup NestedInputs \cup ScenarioInputs

\* The variables of the content filter's state machines (FilterSpec, LoopSpec).
VARIABLES
  html,      \* the filter's argument
  result,    \* the `result` variable; in FilterSpec the value returned
  previous,  \* the `previous` variable of the loop
  again,     \* the filter applied to its own output
  passes,    \* iterations of the loop completed so far
  fpc        \* where the filter's run stands

filterVars == <<html, result, previous, again, passes, fpc>>

(***************************************************************************)
(* The server: main, the two registered tools, getTargets, listPages and   *)
(* getHtmlContent.  A call is suspended at every `await` on the browser    *)
(* (CDP.List, CDP(...), Runtime.evaluate, client.close); the transport     *)
(* hands a request to its handler as soon as it arrives, so calls          *)
(* interleave at these points.                                             *)
(***************************************************************************)

\* Bounds: concurrent calls in flight, targets the endpoint lists.
MaxCalls   == 2
MaxTargets == 3

Calls == 1..MaxCalls

\* What CDP.List can resolve with: targets in the endpoint's order, each a
\* page or something else (service worker, iframe, ...).  The id stands for
\* the target's id and also tells its title and url apart.
Target(k, type) == [id |-> k, type |-> type, title |-> k, url |-> k]

TargetLists ==
  UNION { { [k \in 1..n |-> Target(k, types[k])] : types \in [1..n -> {"page", "other"}] } :
          n \in 0..MaxTargets }

\* pageIndex as the tool schema (z.number().optional()) admits it: absent,
\* an integer, or a number that is no integer.  `given` tells which;
\* pageIndex holds the integer, or the integer just below the number.
IndexValues == -1..(MaxTargets + 2)
FractionFloors == {0}

Selectors == {"undefined", "#main"}

\* The markup the page can return for the evaluated expression.
PageMarkup == { ScNestedSpan, ScDivAttrs, <<"t">> }

NoIndex    == [given |-> "absent", value |-> 0]
NoTargets  == [known |-> FALSE, list |-> <<>>]
NoListing  == <<>>
NoOutcome  == [kind |-> "none"]
Null       == "null"

VARIABLES
  proc,       \* the process: "starting", "running", "exited"
  pc,         \* per call: where its handler is suspended
  tool,       \* per call: the tool the request names
  pageIndex,  \* per call: params.pageIndex
  selector,   \* per call: params.selector
  listed,     \* per call: what CDP.List resolved with (kept for list_chrome_pages)
  targets,    \* per call: getTargets' result
  client,     \* per call: the `client` variable of getHtmlContent
  sessions,   \* per call: debugging sessions it has open at the browser
  opened,     \* per call: sessions it has opened so far
  evaluated,  \* per call: Runtime.evaluate requests it has sent so far
  pending,    \* per call: what the try block produced, held while finally runs
  response    \* per call: what the handler settled with

serverVars ==
  <<proc, pc, tool, pageIndex, selector, listed, targets, client, sessions,
    opened, evaluated, pending, response>>

vars == <<serverVars, filterVars>>

\* targets.filter((t) => t.type === "page")
pageTargets(raw) == SelectSeq(raw, LAMBDA t : t.type = "page")

\* Variant: the index is the target's position in the endpoint's list.
listPagesRawIndex(ts) ==
  [k \in 1..Len(ts) |-> [index |-> ts[k].id - 1, title |-> ts[k].title, url |-> ts[k].url]]

\* targets.map((t, index) => ({ index, title: t.title, url: t.url }))
listPages(ts) ==
  [k \in 1..Len(ts) |-> [index |-> k - 1, title |-> ts[k].title, url |-> ts[k].url]]

\* async function getHtmlContent(pageIndex = 0, ...): the parameter's value.
DefaultIndex(p) ==
  IF p.given = "absent" THEN [given |-> "integer", value |-> 0] ELSE p

\* pageIndex < 0 (k + 0.5 < 0 exactly when k < 0)
IsNegative(p) == p.value < 0

\* pageIndex >= targets.length (k + 0.5 >= n exactly when k >= n)
AtLeast(p, n) == p.value >= n

\* Variant: the upper check is pageIndex > targets.length.
ValidateOffByOne(p, ts) ==
  IF Len(ts) = 0 THEN [kind |-> "NoPages"]
  ELSE IF IsNegative(p) \/ AtLeast(p, Len(ts) + 1)
  THEN [kind |-> "InvalidIndex", lo |-> 0, hi |-> Len(ts) - 1]
  ELSE NoOutcome

\* The two checks before the session is opened: the error thrown, if any.
Validate(p, ts) ==
  IF Len(ts) = 0 THEN [kind |-> "NoPages"]
  ELSE IF IsNegative(p) \/ AtLeast(p, Len(ts))
  THEN [kind |-> "InvalidIndex", lo |-> 0, hi |-> Len(ts) - 1]
  ELSE NoOutcome

Undefined == [id |-> 0, type |-> "undefined", title |-> 0, url |-> 0]

\* targets[pageIndex]: undefined unless pageIndex is an integer index of ts.
TargetAt(ts, p) ==
  IF p.given = "integer" /\ p.value \in 0..(Len(ts) - 1)
  THEN ts[p.value + 1]
  ELSE Undefined

\* Variant: finally { if (!client) ... }
NeedsCloseInverted(cl) == cl = Null

\* finally { if (client) ... }
NeedsClose(cl) == cl # Null

\* Variant: close() at the end of the try block instead of in finally.
ClosesOnSuccessOnly(kind) == kind = "ok"

\* The finally block runs however the try block ended.
ClosesOn(kind) == TRUE

\* Variant: a failed request ends the process, as a failure of main does.
ProcessAfterExit(outcome) ==
  IF outcome.kind \notin {"ok", "none"} THEN "exited" ELSE "running"

\* A handler that rejects hands the error to the MCP server object, which
\* answers the request with it; the handlers never end the process.
ProcessAfter(outcome) == "running"

IsError(outcome) == outcome.kind \notin {"ok", "none"}

\* The handler's promise settles with `outcome`.
Settle(c, outcome) ==
  /\ pc' = [pc EXCEPT ![c] = "done"]
  /\ response' = [response EXCEPT ![c] = outcome]
  /\ pending' = [pending EXCEPT ![c] = NoOutcome]
  /\ client' = [client EXCEPT ![c] = Null]
  /\ proc' = ProcessAfter(outcome)

ServerInit ==
  /\ proc = "starting"
  /\ pc = [c \in Calls |-> "idle"]
  /\ tool = [c \in Calls |-> "none"]
  /\ pageIndex = [c \in Calls |-> NoIndex]
  /\ selector = [c \in Calls |-> "undefined"]
  /\ listed = [c \in Calls |-> NoListing]
  /\ targets = [c \in Calls |-> NoTargets]
  /\ client = [c \in Calls |-> Null]
  /\ sessions = [c \in Calls |-> 0]
  /\ opened = [c \in Calls |-> 0]
  /\ evaluated = [c \in Calls |-> 0]
  /\ pending = [c \in Calls |-> NoOutcome]
  /\ response = [c \in Calls |-> NoOutcome]

Init ==
  /\ ServerInit
  /\ html = <<>> /\ result = <<>> /\ previous = <<>> /\ again = <<>>
  /\ passes = 0
  /\ fpc = "unused"

\* main: server.connect resolves, or it throws and the process exits.
Connect ==
  /\ proc = "starting"
  /\ proc' \in {"running", "exited"}
  /\ UNCHANGED <<pc, tool, pageIndex, selector, listed, targets, client,
                 sessions, opened, evaluated, pending, response, filterVars>>

Request(t, p, s) == [tool |-> t, pageIndex |-> p, selector |-> s]

Requests ==
  { Request("list_chrome_pages", NoIndex, "undefined") }
  \cup { Request("get_page_html", NoIndex, s) : s \in Selectors }
  \cup { Request("get_page_html", [given |-> "integer", value |-> k], s) :
           k \in IndexValues, s \in Selectors }
  \cup { Request("get_page_html", [given |-> "fraction", value |-> k], s) :
           k \in FractionFloors, s \in Selectors }

\* The transport delivers a request: its handler runs up to the await of
\* CDP.List in getTargets.
Receive(c, r) ==
  /\ proc = "running"
  /\ pc[c] \in {"idle", "done"}
  /\ pc' = [pc EXCEPT ![c] = "listing"]
  /\ tool' = [tool EXCEPT ![c] = r.tool]
  /\ pageIndex' = [pageIndex EXCEPT ![c] = r.pageIndex]
  /\ selector' = [selector EXCEPT ![c] = r.selector]
  /\ listed' = [listed EXCEPT ![c] = NoListing]
  /\ targets' = [targets EXCEPT ![c] = NoTargets]
  /\ opened' = [opened EXCEPT ![c] = 0]
  /\ evaluated' = [evaluated EXCEPT ![c] = 0]
  /\ response' = [response EXCEPT ![c] = NoOutcome]
  /\ UNCHANGED <<proc, client, sessions, pending, filterVars>>

\* CDP.List rejects: getTargets throws the connection error.
ListRejected(c) ==
  /\ proc = "running"
  /\ pc[c] = "listing"
  /\ Settle(c, [kind |-> "ConnectionError"])
  /\ UNCHANGED <<tool, pageIndex, selector, listed, targets, sessions, opened,
                 evaluated, filterVars>>

\* CDP.List resolves for list_chrome_pages: listPages maps the page targets.
ListResolvedForList(c, raw) ==
  /\ proc = "running"
  /\ pc[c] = "listing"
  /\ tool[c] = "list_chrome_pages"
  /\ listed' = [listed EXCEPT ![c] = raw]
  /\ targets' = [targets EXCEPT ![c] = [known |-> TRUE, list |-> pageTargets(raw)]]
  /\ Settle(c, [kind |-> "ok", pages |-> listPages(pageTargets(raw))])
  /\ UNCHANGED <<tool, pageIndex, selector, sessions, opened, evaluated, filterVars>>

\* CDP.List resolves for get_page_html: the two checks, then
\* targets[pageIndex] and, inside try, CDP({ target: target.id, ... }).
ListResolvedForHtml(c, raw) ==
  /\ proc = "running"
  /\ pc[c] = "listing"
  /\ tool[c] = "get_page_html"
  /\ LET ts == pageTargets(raw)
         p  == DefaultIndex(pageIndex[c])
         v  == Validate(p, ts)
     IN /\ targets' = [targets EXCEPT ![c] = [known |-> TRUE, list |-> ts]]
        /\ IF v # NoOutcome
           THEN Settle(c, v)
           ELSE IF TargetAt(ts, p) = Undefined
           \* target.id throws inside try; finally finds client still null.
           THEN Settle(c, [kind |-> "TypeError"])
           ELSE /\ pc' = [pc EXCEPT ![c] = "opening"]
                /\ UNCHANGED <<response, pending, client, proc>>
  /\ UNCHANGED <<tool, pageIndex, selector, listed, sessions, opened, evaluated,
                 filterVars>>

\* pageIndex, targets and target are not read again once CDP(...) settles.
DropLocals(c) ==
  /\ pageIndex' = [pageIndex EXCEPT ![c] = NoIndex]
  /\ targets' = [targets EXCEPT ![c] = NoTargets]

\* CDP(...) rejects: nothing was assigned to client, finally closes nothing.
OpenRejected(c) ==
  /\ proc = "running"
  /\ pc[c] = "opening"
  /\ DropLocals(c)
  /\ IF NeedsClose(client[c])
     THEN /\ pc' = [pc EXCEPT ![c] = "closing"]
          /\ pending' = [pending EXCEPT ![c] = [kind |-> "OpenError"]]
          /\ UNCHANGED <<response, client, proc>>
     ELSE Settle(c, [kind |-> "OpenError"])
  /\ UNCHANGED <<tool, selector, listed, sessions, opened, evaluated, filterVars>>

\* CDP(...) resolves: client is assigned and Runtime.evaluate is sent.
OpenResolved(c) ==
  /\ proc = "running"
  /\ pc[c] = "opening"
  /\ DropLocals(c)
  /\ client' = [client EXCEPT ![c] = "client"]
  /\ sessions' = [sessions EXCEPT ![c] = @ + 1]
  /\ opened' = [opened EXCEPT ![c] = @ + 1]
  /\ evaluated' = [evaluated EXCEPT ![c] = @ + 1]
  /\ pc' = [pc EXCEPT ![c] = "evaluating"]
  /\ UNCHANGED <<proc, tool, selector, listed, pending, response, filterVars>>

\* html = removeUnwantedElements(html), for each markup the page can return.
Sanitized == [m \in PageMarkup |-> removeUnwantedElements(m)]

\* What the rest of the try block makes of the evaluation.
EvaluationOutcomes(sel) ==
  { [kind |-> "EvaluateRejected"],
    [kind |-> "EvaluationError"],
    IF sel # "undefined" THEN [kind |-> "ElementNotFound", selector |-> sel]
                         ELSE [kind |-> "NoContent"] }
  \cup { [kind |-> "ok", text |-> Sanitized[m]] : m \in PageMarkup }

\* Runtime.evaluate settles; the try block ends with `outcome`; the finally
\* block runs and, with client set, calls client.close().
EvaluateSettled(c) ==
  /\ proc = "running"
  /\ pc[c] = "evaluating"
  /\ \E outcome \in EvaluationOutcomes(selector[c]) :
       IF ClosesOn(outcome.kind) /\ NeedsClose(client[c])
       THEN /\ pc' = [pc EXCEPT ![c] = "closing"]
            /\ pending' = [pending EXCEPT ![c] = outcome]
            /\ UNCHANGED <<response, client, proc>>
       ELSE Settle(c, outcome)
  /\ UNCHANGED <<tool, pageIndex, selector, listed, targets, sessions, opened,
                 evaluated, filterVars>>

\* client.close() settles.  It resolves when the connection has been shut;
\* it can only reject when the connection is already broken.  Either way
\* the session is gone; a rejection replaces what the try block produced.
CloseSettled(c, ok) ==
  /\ proc = "running"
  /\ pc[c] = "closing"
  /\ sessions' = [sessions EXCEPT ![c] = @ - 1]
  /\ Settle(c, IF ok THEN pending[c] ELSE [kind |-> "CloseError"])
  /\ UNCHANGED <<tool, pageIndex, selector, listed, targets, opened, evaluated,
                 filterVars>>

Next ==
  \/ Connect
  \/ \E c \in Calls, r \in Requests : Receive(c, r)
  \/ \E c \in Calls : ListRejected(c)
  \/ \E c \in Calls, raw \in TargetLists : ListResolvedForList(c, raw)
  \/ \E c \in Calls, raw \in TargetLists : ListResolvedForHtml(c, raw)
  \/ \E c \in Calls : OpenRejected(c)
  \/ \E c \in Calls : OpenResolved(c)
  \/ \E c \in Calls : EvaluateSettled(c)
  \/ \E c \in Calls, ok \in BOOLEAN : CloseSettled(c, ok)

Spec == Init /\ [][Next]_vars

(***************************************************************************)
(* The content filter as a state machine.                                  *)
(*   FilterSpec: the filter is applied to an input, then to its output.    *)
(*   LoopSpec:   the do-while loop of the filter, one iteration per step,  *)
(*               followed for at most MaxPasses iterations.                *)
(***************************************************************************)
FilterInit ==
  /\ ServerInit
  /\ html \in Inputs
  /\ result = <<>>
  /\ previous = <<>>
  /\ again = <<>>
  /\ passes = 0
  /\ fpc = "input"

\* html = removeUnwantedElements(html) on the raw markup.
Sanitize ==
  /\ fpc = "input"
  /\ result' = removeUnwantedElements(html)
  /\ fpc' = "sanitized"
  /\ UNCHANGED <<html, previous, again, passes, serverVars>>

\* The filter applied to its own output.
Resanitize ==
  /\ fpc = "sanitized"
  /\ again' = removeUnwantedElements(result)
  /\ fpc' = "resanitized"
  /\ UNCHANGED <<html, result, previous, passes, serverVars>>

FilterNext == Sanitize \/ Resanitize

FilterSpec == FilterInit /\ [][FilterNext]_vars

\* How many iterations of the loop a run is followed for.
MaxPasses == 8

\* let result = html; let previous;
LoopInit ==
  /\ ServerInit
  /\ html \in Inputs
  /\ result = html
  /\ previous = <<>>
  /\ again = <<>>
  /\ passes = 0
  /\ fpc = "loop"

\* One iteration: previous = result; result = ...; then the loop test.
LoopIter ==
  /\ fpc = "loop"
  /\ passes < MaxPasses
  /\ passes' = passes + 1
  /\ previous' = result
  /\ result' = LoopBody(result)
  /\ fpc' = IF LoopCondition(result', previous', html) THEN "loop" ELSE "returned"
  /\ UNCHANGED <<html, again, serverVars>>

LoopNext == LoopIter

LoopSpec == LoopInit /\ [][LoopNext]_vars

(***************************************************************************)
(* Properties of the content filter                                        *)
(***************************************************************************)

DIV_ID_X_T    == <<"<","d","i","v"," ","i","d","=","\"","x","\"",">","t","<","/","d","i","v",">">>
IFRAME_OPENER == <<"<","i","f","r","a","m","e">>
DATA_COLON    == <<"d","a","t","a",":">>

\* s contains pat (given in lower case), ignoring case.
Contains(s, pat) == \E i \in 1..Len(s) : StartsWithCI(s, i, pat)

\* C3: the filter is idempotent: applied to its own output it returns that
\* output unchanged.
C3_Idempotent == fpc = "resanitized" => again = result

\* A run where the filter rewrote its input and was applied a second time.
C3_Witness ==
  /\ fpc = "resanitized"
  /\ html = ScDivAttrs
  /\ result = DIV_ID_X_T
  /\ again = result

ForbiddenOpeners ==
  { <<"<">> \o NameScript, <<"<">> \o NameStyle, <<"<">> \o NameHead,
    <<"<">> \o NameSvg, IFRAME_OPENER, LitMeta, LitInput, DATA_COLON }

\* C4: whatever the input, the output holds no `<script`, `<style`, `<head`,
\* `<svg`, `<iframe`, `<meta` or `<input` opener and no `data:` payload.
C4_NoForbiddenOutput ==
  fpc = "sanitized" => \A pat \in ForbiddenOpeners : ~Contains(result, pat)

\* The last position of the tag name that starts at i: it runs up to
\* whitespace, `/` or `>`.
RECURSIVE ElementNameEnd(_, _)
ElementNameEnd(s, i) ==
  IF i <= Len(s) /\ ~IsSpace(s[i]) /\ s[i] \notin {"/", ">"}
  THEN ElementNameEnd(s, i + 1)
  ELSE i - 1

\* The attributes of the element openers of s, as <<tag, attribute>> pairs
\* in lower case.  An attribute name is a run of letters, digits and
\* hyphens; a quoted value is skipped as a whole.
RECURSIVE AttrsIn(_, _, _, _)
AttrsIn(s, tag, p, g) ==
  IF p >= g THEN {}
  ELSE IF ~IsLetter(s[p]) THEN AttrsIn(s, tag, p + 1, g)
  ELSE LET m  == SkipAttrName(s, p)
           e  == SkipSpace(s, m + 1) + 1
           me == {<<tag, LowerStr(Sub(s, p, m))>>}
       IN IF ~(e < g /\ s[e] = "=") THEN me \cup AttrsIn(s, tag, m + 1, g)
          ELSE LET o == SkipSpace(s, e + 1) + 1
               IN IF o < g /\ IsQuote(s[o])
                  THEN LET q == FindChar(s, o + 1, s[o])
                       IN me \cup (IF q = 0 \/ q >= g THEN {}
                                   ELSE AttrsIn(s, tag, q + 1, g))
                  ELSE LET v == FindChar(s, o, " ")
                       IN me \cup (IF v = 0 \/ v >= g THEN {}
                                   ELSE AttrsIn(s, tag, v + 1, g))

ElementAttrs(s) ==
  UNION { LET n == ElementNameEnd(s, i + 1)
              g == FindChar(s, n + 1, ">")
          IN AttrsIn(s, LowerStr(Sub(s, i + 1, n)), n + 1,
                     IF g = 0 THEN Len(s) + 1 ELSE g) :
          i \in { j \in 1..(Len(s) - 1) : s[j] = "<" /\ IsLetter(s[j + 1]) } }

\* The per-tag allow-list: id anywhere, href on a, src and alt on img.
AllowedOn(tag, attr) ==
  \/ attr = <<"i","d">>
  \/ tag = NameA /\ attr = <<"h","r","e","f">>
  \/ tag = NameImg /\ attr \in { <<"s","r","c">>, <<"a","l","t">> }

\* C5: every element of the output carries only attributes of the per-tag
\* allow-list; the documented div keeps exactly its id, and an image with an
\* http source keeps exactly src and alt.
C5_AllowListOnly ==
  fpc = "sanitized" =>
    /\ \A ta \in ElementAttrs(result) : AllowedOn(ta[1], ta[2])
    /\ html = ScDivAttrs => result = DIV_ID_X_T
    /\ html = ScImgHttp => result = ScImgHttp

\* s holds an attribute-less element, whatever its tag name, whose content
\* is empty or whitespace.
HasEmptyElement(s) ==
  \E i \in 1..(Len(s) - 1) :
    /\ s[i] = "<"
    /\ IsLetter(s[i + 1])
    /\ LET n == ElementNameEnd(s, i + 1)
       IN /\ n + 1 <= Len(s)
          /\ s[n + 1] = ">"
          /\ StartsWithCI(s, SkipSpace(s, n + 2) + 1,
                          <<"<", "/">> \o LowerStr(Sub(s, i + 1, n)) \o <<">">>)

\* C8: no attribute-less element with empty or whitespace-only content is
\* left in the output, parents emptied by the removal of their children
\* included; the documented examples, alone or two levels deep, yield "".
C8_EmptyElementsPruned ==
  fpc = "sanitized" =>
    /\ ~HasEmptyElement(result)
    /\ html \in {ScSpan, ScPara, ScNestedSpan, ScNestedPara} => result = <<>>

\* What does hold of the pruning: no empty attribute-less element whose name
\* is a letter followed by letters and digits is left in the output.
PrunedWhenAlphanumeric ==
  fpc = "sanitized" =>
    /\ \A i \in 1..Len(result) : EmptyEnd(result, i) = 0
    /\ html \in {ScSpan, ScPara, ScNestedSpan, ScNestedPara} => result = <<>>

\* C10: the loop of the filter terminates: no run is still looping after
\* MaxPasses iterations (so none cycles between distinct strings), and a run
\* returns the string that its last iteration left unchanged.
C10_Terminates ==
  /\ fpc = "loop" => passes < MaxPasses
  /\ fpc = "returned" => previous = result /\ passes >= 1

\* A run that returned after several iterations.
C10_Witness ==
  /\ fpc = "returned"
  /\ html = ScNestedSpan
  /\ result = <<>>
  /\ passes = 4

(***************************************************************************)
(* Properties of the server                                                *)
(***************************************************************************)

RECURSIVE SumTo(_, _)
SumTo(f, n) == IF n = 0 THEN 0 ELSE f[n] + SumTo(f, n - 1)

\* Sessions open at the browser, over all calls.
TotalSessions == SumTo(sessions, MaxCalls)

\* C1: no get_page_html call completes, by returning or by raising, while a
\* session it opened is still open.
C1_SessionClosedOnExit ==
  \A c \in Calls : pc[c] \in {"idle", "done"} => sessions[c] = 0

\* A call that opened a session, had its evaluation fail and completed.
C1_Witness ==
  \E c \in Calls :
    /\ pc[c] = "done"
    /\ opened[c] = 1
    /\ response[c].kind \in {"EvaluationError", "EvaluateRejected", "ElementNotFound"}
    /\ sessions[c] = 0

\* C2 as stated: at every moment at most one session is open in the server.
C2_AtMostOneSession == TotalSessions <= 1

\* C2 as amended: every call opens at most one session, evaluates at most
\* once on it and has closed it when it completes; the sessions of calls in
\* flight together may overlap, one per call.
C2_OneSessionPerCall ==
  /\ \A c \in Calls :
       /\ sessions[c] \in {0, 1}
       /\ opened[c] <= 1
       /\ evaluated[c] <= opened[c]
       /\ pc[c] \in {"idle", "done"} => sessions[c] = 0
  /\ TotalSessions <= Cardinality({c \in Calls : pc[c] \in {"evaluating", "closing"}})

\* Two calls in flight, each with its own session open.
C2_Witness ==
  \E c, d \in Calls : c # d /\ sessions[c] = 1 /\ sessions[d] = 1

\* The number of page targets among the first j entries of raw.
PagesUpTo(raw, j) == Cardinality({i \in 1..j : raw[i].type = "page"})

\* C6: list_chrome_pages answers with exactly the page targets of the
\* endpoint's list, in its order; entry k is the k-th page target and has
\* index k - 1.
C6_ListPagesIndexes ==
  \A c \in Calls :
    (pc[c] = "done" /\ tool[c] = "list_chrome_pages" /\ response[c].kind = "ok") =>
      LET raw == listed[c]
          out == response[c].pages
      IN /\ Len(out) = PagesUpTo(raw, Len(raw))
         /\ \A k \in 1..Len(out) :
              /\ out[k].index = k - 1
              /\ \E j \in 1..Len(raw) :
                   /\ raw[j].type = "page"
                   /\ PagesUpTo(raw, j) = k
                   /\ out[k].title = raw[j].title
                   /\ out[k].url = raw[j].url

\* The endpoint lists page, other, page: two entries, indexes 0 and 1.
C6_Witness ==
  \E c \in Calls :
    /\ pc[c] = "done"
    /\ tool[c] = "list_chrome_pages"
    /\ listed[c] = <<Target(1, "page"), Target(2, "other"), Target(3, "page")>>
    /\ response[c] = [kind |-> "ok",
                      pages |-> << [index |-> 0, title |-> 1, url |-> 1],
                                   [index |-> 1, title |-> 3, url |-> 3] >>]

\* The number pageIndex stands for lies in [0, n).
InRange(p, n) ==
  \/ p.given = "absent" /\ 0 < n
  \/ p.given = "integer" /\ 0 <= p.value /\ p.value < n
  \/ p.given = "fraction" /\ 0 <= p.value /\ p.value + 1 <= n

\* The state part of C7, for a call whose target list is known.
C7_Checked ==
  \A c \in Calls :
    (tool[c] = "get_page_html" /\ targets[c].known) =>
      LET n == Len(targets[c].list)
          p == pageIndex[c]
      IN /\ pc[c] \in {"opening", "done"}
         /\ pc[c] = "opening" => InRange(p, n) /\ p.given # "fraction"
         /\ n = 0 =>
              /\ pc[c] = "done"
              /\ response[c] = [kind |-> "NoPages"]
              /\ opened[c] = 0 /\ evaluated[c] = 0 /\ sessions[c] = 0
         /\ (n >= 1 /\ ~InRange(p, n)) =>
              /\ pc[c] = "done"
              /\ response[c] = [kind |-> "InvalidIndex", lo |-> 0, hi |-> n - 1]
              /\ opened[c] = 0 /\ evaluated[c] = 0 /\ sessions[c] = 0

\* The step part of C7: a session is opened, or an evaluation sent, only by
\* a call that has its target list and an index within it.
C7_OpensOnlyInRange ==
  \A c \in Calls :
    (opened'[c] > opened[c] \/ evaluated'[c] > evaluated[c]) =>
      /\ pc[c] = "opening"
      /\ targets[c].known
      /\ InRange(pageIndex[c], Len(targets[c].list))

\* C7: the index is checked against the list enumerated in the same call
\* before any session is opened: no pages and out-of-range indexes fail with
\* their errors (the latter stating the range 0..n-1) without a session or an
\* evaluation, and a session is opened only for an index in range.
C7_IndexValidatedFirst == []C7_Checked /\ [][C7_OpensOnlyInRange]_vars

\* pageIndex 5 against two page targets: the error states the range 0-1.
C7_Witness ==
  \E c \in Calls :
    /\ pc[c] = "done"
    /\ pageIndex[c] = [given |-> "integer", value |-> 5]
    /\ Len(targets[c].list) = 2
    /\ response[c] = [kind |-> "InvalidIndex", lo |-> 0, hi |-> 1]
    /\ opened[c] = 0

AnyRequest == Request("list_chrome_pages", NoIndex, "undefined")

====
